---- MODULE Spec2Model ----
(***************************************************************************)
(* Finite field F_p and the curve group y^2 = x^3 + 7 of                   *)
(* jouliene/bitcoin-from-scratch (src/src/finite_fields.rs,                *)
(* src/src/point.rs).                                                      *)
(*                                                                         *)
(* The program works on arbitrary-precision integers with the 256-bit      *)
(* secp256k1 prime.  TLC integers are 32 bits wide, so the process-wide    *)
(* constants are instantiated at the small curve of the same shape:        *)
(* y^2 = x^3 + 7 over F_13, which like secp256k1 has a = 0, b = 7,         *)
(* p = 1 (mod 3), prime group order N = 7 < p and cofactor 1.  Every       *)
(* operator below is the code's arithmetic, generic in PRIME and           *)
(* SECP256K1_N; only the values of the constants are scaled.               *)
(*                                                                         *)
(* A FieldElement is modelled by its only field, the integer num.          *)
(* BigInt's % truncates towards zero (Rem); BigInt::modpow returns the     *)
(* floored residue in [0, m) (ModPow).                                     *)
(*                                                                         *)
(* Three specifications: FieldSpec (calls on FieldElement values and       *)
(* Point::new), Spec (point addition and the double-and-add loop, stepped  *)
(* one iteration at a time, iter counting the completed iterations) and    *)
(* LazySpec (threads dereferencing the lazy_static constants, and a caller  *)
(* whose operands the loop must leave alone).                              *)
(***************************************************************************)
EXTENDS Integers, Sequences, FiniteSets, TLC

VARIABLES fe, acc, call, pc, k, result, current, iter,
          once, cellval, inits, stack, seen

\* the state of the lazy_static cells and of the threads that touch them
lazyVars == <<once, cellval, inits, stack, seen>>

vars == <<fe, acc, call, pc, k, result, current, iter,
          once, cellval, inits, stack, seen>>

(***************************************************************************)
(* Process-wide constants (lazy_static), scaled.                           *)
(***************************************************************************)
PRIME == 13
SECP256K1_B == 7
TWO == 2
THREE == 3
SECP256K1_N == 7
Gx == 7
Gy == 5

(***************************************************************************)
(* Bounds of the exploration.                                              *)
(***************************************************************************)
\* raw integers (arguments of new, exponents, coefficients, scalars) are
\* drawn from MaxOver below the least and MaxOver above the greatest
\* canonical value
MaxOver == 2
\* a result is kept in a register only while |num| <= MaxNum
MaxNum == 15
\* the right-hand operand of a point addition is a point the caller obtained
\* from constructed points by at most MaxOperandOps additions or scalar
\* multiplications (the left-hand operand is the register, of any depth)
MaxOperandOps == 1
\* the point arguments of the calls the threads make are obtained from
\* constructed points by at most MaxCallOps additions or scalar
\* multiplications
MaxCallOps == 3

(***************************************************************************)
(* Outcomes of a call: a value, an Err(String) result, or a panic.         *)
(***************************************************************************)
Ok(v) == [kind |-> "Ok", val |-> v, err |-> ""]
Err(e) == [kind |-> "Err", val |-> 0, err |-> e]
Panic(e) == [kind |-> "Panic", val |-> 0, err |-> e]

\* Result::unwrap: the value, or a panic on Err
Unwrap(r) == IF r.kind = "Err" THEN Panic("unwrap") ELSE r

(***************************************************************************)
(* BigInt arithmetic used by the code.                                     *)
(***************************************************************************)
\* BigInt % BigInt: truncated remainder, the sign follows the dividend
Rem(a, m) == IF a >= 0 THEN a % m ELSE -((-a) % m)

\* BigInt::modpow(e, m), e >= 0, m > 0: floored residue in [0, m)
RECURSIVE ModPow(_, _, _)
ModPow(b, e, m) ==
    IF e = 0 THEN 1 % m
    ELSE LET h == ModPow(b, e \div 2, m)
             sq == (h * h) % m
         IN  IF e % 2 = 1 THEN (sq * (b % m)) % m ELSE sq

(***************************************************************************)
(* FieldElement (finite_fields.rs).                                        *)
(***************************************************************************)
\* mutant: the upper bound of new is off by one
FeNewOffByOne(num) ==
    IF num < 0 \/ num > PRIME THEN Err("OutOfRange") ELSE Ok(num)

\* mutant: new aborts instead of returning Err
FeNewAborts(num) ==
    IF num < 0 \/ num >= PRIME THEN Panic("OutOfRange") ELSE Ok(num)

FeNew(num) ==
    IF num < 0 \/ num >= PRIME THEN Err("OutOfRange") ELSE Ok(num)

FeZero == Unwrap(FeNew(0))

FeOne == Unwrap(FeNew(1))

\* mutant: the zero check of inverse is missing
FeInverseUnchecked(a) == Ok(ModPow(a, PRIME - 2, PRIME))

FeInverse(a) ==
    IF a = 0 THEN Panic("DivisionByZero")
    ELSE Ok(ModPow(a, PRIME - 2, PRIME))

FePow(a, exponent) ==
    LET p_minus_one == PRIME - 1
    IN  IF exponent < 0
        THEN LET reduced_exp == Rem(-exponent, p_minus_one)
                 inv == FeInverse(a)
             IN  IF inv.kind = "Panic" THEN inv
                 ELSE Ok(ModPow(inv.val, Rem(reduced_exp, p_minus_one), PRIME))
        ELSE Ok(ModPow(a, Rem(exponent, p_minus_one), PRIME))

FeNegate(a) == Unwrap(FeNew(Rem(PRIME - a, PRIME)))

FeAdd(a, b) ==
    LET sum == a + b
    IN  IF sum >= PRIME THEN sum - PRIME ELSE sum

FeSub(a, b) ==
    LET diff == a - b
    IN  IF diff < 0 THEN diff + PRIME ELSE diff

FeMul(a, b) == Rem(a * b, PRIME)

\* impl Mul<&FieldElement> for BigInt: coeff * a
CoeffMul(coeff, a) == Rem(coeff * a, PRIME)

FeDiv(a, b) ==
    LET rhs_inv == FeInverse(b)
    IN  IF rhs_inv.kind = "Panic" THEN rhs_inv
        ELSE Ok(FeMul(a, rhs_inv.val))

(***************************************************************************)
(* Point (point.rs).  Option<FieldElement> is NoneFe / SomeFe(num).        *)
(***************************************************************************)
NoneFe == [some |-> FALSE, num |-> 0]
SomeFe(n) == [some |-> TRUE, num |-> n]

Infinity == [tag |-> "Infinity", x |-> 0, y |-> 0]
Coordinates(x, y) == [tag |-> "Coordinates", x |-> x, y |-> y]

G == Coordinates(Gx, Gy)

\* mutant: the curve check forgets b
PointNewNoB(x, y) ==
    IF ~x.some /\ ~y.some THEN Ok(Infinity)
    ELSE IF x.some /\ y.some
    THEN IF FePow(y.num, 2).val = FePow(x.num, 3).val
         THEN Ok(Coordinates(x.num, y.num))
         ELSE Err("NotOnCurve")
    ELSE Err("MismatchedCoordinates")

PointNew(x, y) ==
    IF ~x.some /\ ~y.some THEN Ok(Infinity)
    ELSE IF x.some /\ y.some
    THEN LET left == FePow(y.num, 2).val
             right == FeAdd(FePow(x.num, 3).val, SECP256K1_B)
         IN  IF left = right THEN Ok(Coordinates(x.num, y.num))
             ELSE Err("NotOnCurve")
    ELSE Err("MismatchedCoordinates")

PointDouble(self) ==
    IF self.tag = "Coordinates"
    THEN IF self.y = FeZero.val THEN Ok(Infinity)
         ELSE LET numerator == FeMul(THREE, FePow(self.x, 2).val)
                  denominator == FeMul(TWO, self.y)
                  s == FeDiv(numerator, denominator)
              IN  IF s.kind = "Panic" THEN s
                  ELSE LET x3 == FeSub(FePow(s.val, 2).val, FeAdd(self.x, self.x))
                           x_minus_x3 == FeSub(self.x, x3)
                           s_times_diff == FeMul(s.val, x_minus_x3)
                           y3 == FeSub(s_times_diff, self.y)
                       IN  Ok(Coordinates(x3, y3))
    ELSE Ok(Infinity)

PointAddDistinct(self, other) ==
    IF self.tag = "Coordinates" /\ other.tag = "Coordinates"
    THEN LET s == FeDiv(FeSub(other.y, self.y), FeSub(other.x, self.x))
         IN  IF s.kind = "Panic" THEN s
             ELSE LET s_squared == FePow(s.val, 2).val
                      s_squared_minus_x1 == FeSub(s_squared, self.x)
                      x3 == FeSub(s_squared_minus_x1, other.x)
                      x1_minus_x3 == FeSub(self.x, x3)
                      s_times_diff == FeMul(s.val, x1_minus_x3)
                      y3 == FeSub(s_times_diff, self.y)
                  IN  Ok(Coordinates(x3, y3))
    ELSE Ok(Infinity)

\* mutant: the arm (_, Infinity) is missing, so a finite point plus Infinity
\* falls through to point_add_distinct, which answers Infinity
PointAddNoRightIdentity(self, rhs) ==
    IF self.tag = "Infinity" THEN Ok(rhs)
    ELSE IF rhs.tag = "Infinity" THEN PointAddDistinct(self, rhs)
    ELSE IF self.x = rhs.x
         THEN IF self.y = rhs.y THEN PointDouble(self) ELSE Ok(Infinity)
         ELSE PointAddDistinct(self, rhs)

\* impl Add<&Point> for &Point
PointAdd(self, rhs) ==
    IF self.tag = "Infinity" THEN Ok(rhs)
    ELSE IF rhs.tag = "Infinity" THEN Ok(self)
    ELSE IF self.x = rhs.x
         THEN IF self.y = rhs.y THEN PointDouble(self) ELSE Ok(Infinity)
         ELSE PointAddDistinct(self, rhs)

\* mutant: a negative remainder is not brought back into [0, N)
ReduceScalarNoFix(rhs) == Rem(rhs, SECP256K1_N)

\* impl Mul<&BigInt> for &Point, lines 163-167: the scalar brought into [0, N)
ReduceScalar(rhs) ==
    LET r == Rem(rhs, SECP256K1_N)
    IN  IF r < 0 THEN r + SECP256K1_N ELSE r

\* the locals of the double-and-add loop before its first iteration
MulEnter(self, rhs) ==
    [k |-> ReduceScalar(rhs), result |-> Infinity, current |-> self,
     panicked |-> FALSE]

\* one iteration of `while k > 0` (lines 172-177); a panic inside an addition
\* unwinds the call
MulIter(st) ==
    LET r1 == IF st.k % 2 = 1 THEN PointAdd(st.result, st.current)
              ELSE Ok(st.result)
        c1 == PointAdd(st.current, st.current)
    IN  IF r1.kind = "Panic" \/ c1.kind = "Panic"
        THEN [st EXCEPT !.panicked = TRUE]
        ELSE [k |-> st.k \div 2, result |-> r1.val, current |-> c1.val,
              panicked |-> FALSE]

RECURSIVE MulRun(_)
MulRun(st) ==
    IF st.k > 0 /\ ~st.panicked THEN MulRun(MulIter(st)) ELSE st

\* the whole call self * rhs
PointMul(self, rhs) ==
    LET st == MulRun(MulEnter(self, rhs))
    IN  IF st.panicked THEN Panic("DivisionByZero") ELSE Ok(st.result)

(***************************************************************************)
(* Inputs.                                                                 *)
(***************************************************************************)
\* raw integers handed to new, pow, coeff * a: below 0, in range, p - 1, >= p
Ints == (0 - MaxOver)..(PRIME - 1 + MaxOver)

\* scalars handed to Point * k: negative, zero, below N, N and above
Scalars == (0 - SECP256K1_N - MaxOver)..(SECP256K1_N + MaxOver)

\* the nums FieldElement::new accepts
ValidNums == {n \in Ints : FeNew(n).kind = "Ok"}

Abs(n) == IF n < 0 THEN 0 - n ELSE n

\* the values of the calls that return a FieldElement, on elements of S
FieldResults(S) ==
    {CoeffMul(c, a) : c \in Ints, a \in S}
        \cup {FePow(a, e).val : <<a, e>> \in {ae \in S \X Ints :
                                       FePow(ae[1], ae[2]).kind = "Ok"}}
        \cup {FeNegate(a).val : a \in {b \in S : FeNegate(b).kind = "Ok"}}
        \cup {FeAdd(a, b) : a \in S, b \in S}
        \cup {FeSub(a, b) : a \in S, b \in S}
        \cup {FeMul(a, b) : a \in S, b \in S}
        \cup {FeDiv(a, b).val : <<a, b>> \in {ab \in S \X S :
                                       FeDiv(ab[1], ab[2]).kind = "Ok"}}

\* S with the elements within the bound that one more call returns
RECURSIVE FieldClosure(_)
FieldClosure(S) ==
    LET T == S \cup {n \in FieldResults(S) : Abs(n) <= MaxNum}
    IN  IF T = S THEN S ELSE FieldClosure(T)

\* the FieldElement values a caller holds: those new returns, and those the
\* calls on held elements return
FieldInputs == FieldClosure(ValidNums)

OptFieldInputs == {NoneFe} \cup {SomeFe(n) : n \in FieldInputs}

\* the points Point::new returns for those elements
PointInputs ==
    {PointNew(x, y).val :
        <<x, y>> \in {xy \in OptFieldInputs \X OptFieldInputs :
                         PointNew(xy[1], xy[2]).kind = "Ok"}}

\* a point whose coordinates are within the bound of the registers
InBound(P) == Abs(P.x) <= MaxNum /\ Abs(P.y) <= MaxNum

\* the values within the bound that &a + &b returns for a in A, b in B
SumsOf(A, B) ==
    {r.val : r \in {q \in {PointAdd(a, b) : a \in A, b \in B} :
                       q.kind = "Ok" /\ InBound(q.val)}}

\* the values &a + &b returns for a, b in H
Sums(H) == SumsOf(H, H)

\* the values within the bound that &a * &k returns for a in H
Products(H) ==
    {r.val : r \in {q \in {PointMul(a, rhs) : a \in H, rhs \in Scalars} :
                       q.kind = "Ok" /\ InBound(q.val)}}

\* the points a caller holds after at most d operations on constructed points
RECURSIVE HeldPoints(_)
HeldPoints(d) ==
    IF d = 0 THEN PointInputs
    ELSE LET H == HeldPoints(d - 1)
         IN  H \cup Sums(H) \cup Products(H)

HeldOperands == HeldPoints(MaxOperandOps)

\* the points the threads' calls take: those a caller holds after at most
\* MaxCallOps operations
CallPoints == HeldPoints(MaxCallOps)

(***************************************************************************)
(* The record of the last call and the registers that keep its value.      *)
(***************************************************************************)
MkCall(op, a, b, r) ==
    [op |-> op, a |-> a, b |-> b, kind |-> r.kind, out |-> r.val, err |-> r.err]

\* `fe = op(..)`: the register takes the value of a call that returned one
KeepFe(r, old) ==
    IF r.kind = "Ok" /\ Abs(r.val) <= MaxNum THEN r.val ELSE old

\* `acc = op(..)`
KeepPoint(r, old) ==
    IF r.kind = "Ok" /\ Abs(r.val.x) <= MaxNum /\ Abs(r.val.y) <= MaxNum
    THEN r.val ELSE old

\* Point::new(x, y).unwrap_or(Point::Infinity)
UnwrapOrInfinity(r) == IF r.kind = "Ok" THEN r.val ELSE Infinity

(***************************************************************************)
(* The process-wide constants are lazy_static cells                       *)
(* (finite_fields.rs 8-13, point.rs 10-29): a cell is initialized by the   *)
(* first dereference, under a std::sync::Once; a dereference that finds    *)
(* the initializer running waits for it, and every dereference returns     *)
(* the stored value.  The threads' calls dereference the cells in the      *)
(* order the code does.                                                    *)
(***************************************************************************)
\* the number of threads that invoke operations
NThreads == 2

Threads == 1..NThreads

Cells == {"PRIME", "SECP256K1_B", "TWO", "THREE", "SECP256K1_N", "G"}

\* the content of a cell: Option<T>, T a BigInt or FieldElement (n) or a
\* Point (p)
NoCell == [some |-> FALSE, n |-> 0, p |-> Infinity]
SomeCell(n, p) == [some |-> TRUE, n |-> n, p |-> p]

\* the value each initializer computes
CellValue(c) ==
    CASE c = "PRIME" -> SomeCell(PRIME, Infinity)
      [] c = "SECP256K1_B" -> SomeCell(SECP256K1_B, Infinity)
      [] c = "TWO" -> SomeCell(TWO, Infinity)
      [] c = "THREE" -> SomeCell(THREE, Infinity)
      [] c = "SECP256K1_N" -> SomeCell(SECP256K1_N, Infinity)
      [] c = "G" -> SomeCell(0, G)

\* the cells a call dereferences, in program order, computed along the
\* control flow of the call
\* FieldElement::new: `num.is_negative() || num >= *PRIME`, and *PRIME again
\* in the message of the error
DerefsFeNew(num) ==
    IF num < 0 THEN <<"PRIME">>
    ELSE IF num >= PRIME THEN <<"PRIME", "PRIME">>
    ELSE <<"PRIME">>

\* inverse: the zero check comes first, then prime() for p - 2 and for modpow
DerefsInverse(a) == IF a = 0 THEN << >> ELSE <<"PRIME", "PRIME">>

\* pow: prime() for p - 1; e >= 0: prime() for modpow; e < 0: inverse, then
\* pow again on its result
DerefsPow(a, exponent) ==
    IF exponent < 0
    THEN <<"PRIME">> \o DerefsInverse(a)
            \o (IF a = 0 THEN << >> ELSE <<"PRIME", "PRIME">>)
    ELSE <<"PRIME", "PRIME">>

\* negate: prime(), then new on the remainder
DerefsNegate(a) == <<"PRIME">> \o DerefsFeNew(Rem(PRIME - a, PRIME))

\* add: prime() in the comparison, and in the reduction when it is taken
DerefsAdd(a, b) ==
    IF a + b >= PRIME THEN <<"PRIME", "PRIME">> ELSE <<"PRIME">>

\* sub: prime() only when the difference is negative
DerefsSub(a, b) == IF a - b < 0 THEN <<"PRIME">> ELSE << >>

\* mul and coeff * a: prime() in the reduction
DerefsMul == <<"PRIME">>

\* div: inverse, then mul
DerefsDiv(a, b) ==
    DerefsInverse(b) \o (IF b = 0 THEN << >> ELSE DerefsMul)

\* Point::new: (None, None) and the mismatched forms dereference nothing;
\* (Some, Some): y.pow(2), x.pow(3), &*SECP256K1_B, add, and the Display of
\* x and y (*PRIME each) in the message of the error
DerefsPointNew(x, y) ==
    IF x.some /\ y.some
    THEN DerefsPow(y.num, 2) \o DerefsPow(x.num, 3) \o <<"SECP256K1_B">>
            \o DerefsAdd(FePow(x.num, 3).val, SECP256K1_B)
            \o (IF PointNew(x, y).kind = "Err" THEN <<"PRIME", "PRIME">>
                ELSE << >>)
    ELSE << >>

\* point_double: zero(); then &*THREE, x.pow(2), mul, &*TWO, mul, div, and
\* after a division that returned: pow, add, sub, sub, mul, sub
DerefsPointDouble(self) ==
    IF self.tag = "Coordinates"
    THEN DerefsFeNew(0) \o
         (IF self.y = FeZero.val THEN << >>
          ELSE LET x_squared == FePow(self.x, 2).val
                   numerator == FeMul(THREE, x_squared)
                   denominator == FeMul(TWO, self.y)
                   s == FeDiv(numerator, denominator)
               IN  <<"THREE">> \o DerefsPow(self.x, 2) \o DerefsMul
                      \o <<"TWO">> \o DerefsMul
                      \o DerefsDiv(numerator, denominator)
                      \o (IF s.kind = "Panic" THEN << >>
                          ELSE LET s_squared == FePow(s.val, 2).val
                                   two_x == FeAdd(self.x, self.x)
                                   x3 == FeSub(s_squared, two_x)
                                   x_minus_x3 == FeSub(self.x, x3)
                                   s_times_diff == FeMul(s.val, x_minus_x3)
                               IN  DerefsPow(s.val, 2)
                                      \o DerefsAdd(self.x, self.x)
                                      \o DerefsSub(s_squared, two_x)
                                      \o DerefsSub(self.x, x3)
                                      \o DerefsMul
                                      \o DerefsSub(s_times_diff, self.y)))
    ELSE << >>

\* point_add_distinct: sub, sub, div, and after a division that returned:
\* pow, sub, sub, sub, mul, sub
DerefsPointAddDistinct(self, other) ==
    IF self.tag = "Coordinates" /\ other.tag = "Coordinates"
    THEN LET dy == FeSub(other.y, self.y)
             dx == FeSub(other.x, self.x)
             s == FeDiv(dy, dx)
         IN  DerefsSub(other.y, self.y) \o DerefsSub(other.x, self.x)
                \o DerefsDiv(dy, dx)
                \o (IF s.kind = "Panic" THEN << >>
                    ELSE LET s_squared == FePow(s.val, 2).val
                             s_squared_minus_x1 == FeSub(s_squared, self.x)
                             x3 == FeSub(s_squared_minus_x1, other.x)
                             x1_minus_x3 == FeSub(self.x, x3)
                             s_times_diff == FeMul(s.val, x1_minus_x3)
                         IN  DerefsPow(s.val, 2)
                                \o DerefsSub(s_squared, self.x)
                                \o DerefsSub(s_squared_minus_x1, other.x)
                                \o DerefsSub(self.x, x3)
                                \o DerefsMul
                                \o DerefsSub(s_times_diff, self.y))
    ELSE << >>

\* impl Add<&Point> for &Point: the arms with Infinity and P + (-P)
\* dereference nothing
DerefsPointAdd(self, rhs) ==
    IF self.tag = "Infinity" \/ rhs.tag = "Infinity" THEN << >>
    ELSE IF self.x = rhs.x
         THEN IF self.y = rhs.y THEN DerefsPointDouble(self) ELSE << >>
         ELSE DerefsPointAddDistinct(self, rhs)

\* one iteration of the loop of mul: the addition into result when the bit
\* is set, then the doubling of current
DerefsIter(st) ==
    LET odd == st.k % 2 = 1
        r1 == IF odd THEN PointAdd(st.result, st.current) ELSE Ok(st.result)
    IN  (IF odd THEN DerefsPointAdd(st.result, st.current) ELSE << >>)
           \o (IF r1.kind = "Panic" THEN << >>
               ELSE DerefsPointAdd(st.current, st.current))

\* the iterations of the loop from the locals st on; none when k = 0
RECURSIVE DerefsLoop(_)
DerefsLoop(st) ==
    IF st.k > 0 /\ ~st.panicked
    THEN DerefsIter(st) \o DerefsLoop(MulIter(st))
    ELSE << >>

\* impl Mul<&BigInt> for &Point: `rhs % &*SECP256K1_N`, `k += &*SECP256K1_N`
\* for a negative remainder, then the loop
DerefsPointMul(self, rhs) ==
    <<"SECP256K1_N">>
        \o (IF Rem(rhs, SECP256K1_N) < 0 THEN <<"SECP256K1_N">> ELSE << >>)
        \o DerefsLoop(MulEnter(self, rhs))

\* a dereference that follows one of the same cell by the same thread finds
\* the Once complete and returns the same value: the two are one step
RECURSIVE Collapse(_)
Collapse(s) ==
    IF Len(s) <= 1 THEN s
    ELSE IF s[1] = s[2] THEN Collapse(Tail(s))
    ELSE <<s[1]>> \o Collapse(Tail(s))

\* the point holds FieldElements made earlier
HoldsElements(P) == P.tag = "Coordinates"

\* a call a thread makes: held says that an argument contains a
\* FieldElement, which exists only once PRIME is initialized
MkLazyCall(op, held, todo) ==
    [op |-> op, held |-> held, todo |-> Collapse(todo)]

\* the calls a thread may make: a dereference of a cell (prime() for PRIME,
\* the pub static refs of point.rs), and the operations on arguments the
\* thread holds; `&*G + &*G` and `&*G * &k` are the dereference of G followed
\* by the operation on its value
Calls ==
    {MkLazyCall("deref", FALSE, <<c>>) : c \in Cells}
    \cup {MkLazyCall("fe_new", FALSE, DerefsFeNew(n)) : n \in Ints}
    \cup {MkLazyCall("fe_pow", TRUE, DerefsPow(a, e)) :
             a \in FieldInputs, e \in Ints}
    \cup {MkLazyCall("fe_negate", TRUE, DerefsNegate(a)) : a \in FieldInputs}
    \cup {MkLazyCall("fe_add", TRUE, DerefsAdd(a, b)) :
             a \in FieldInputs, b \in FieldInputs}
    \cup {MkLazyCall("fe_sub", TRUE, DerefsSub(a, b)) :
             a \in FieldInputs, b \in FieldInputs}
    \cup {MkLazyCall("fe_mul", TRUE, DerefsMul) : a \in FieldInputs}
    \cup {MkLazyCall("fe_div", TRUE, DerefsDiv(a, b)) :
             a \in FieldInputs, b \in FieldInputs}
    \cup {MkLazyCall("pt_new", x.some \/ y.some, DerefsPointNew(x, y)) :
             x \in OptFieldInputs, y \in OptFieldInputs}
    \cup {MkLazyCall("pt_add", HoldsElements(a) \/ HoldsElements(b),
                     DerefsPointAdd(a, b)) :
             a \in CallPoints, b \in CallPoints}
    \cup {MkLazyCall("pt_mul", HoldsElements(a), DerefsPointMul(a, rhs)) :
             a \in CallPoints, rhs \in Scalars}

\* the cells an initializer dereferences
InitDerefs(c) ==
    CASE c = "PRIME" -> << >>
      [] c = "SECP256K1_B" -> Collapse(DerefsFeNew(SECP256K1_B))
      [] c = "TWO" -> Collapse(DerefsFeNew(TWO))
      [] c = "THREE" -> Collapse(DerefsFeNew(THREE))
      [] c = "SECP256K1_N" -> << >>
      [] c = "G" -> Collapse(DerefsFeNew(Gx) \o DerefsFeNew(Gy)
                                \o DerefsPointNew(SomeFe(Gx), SomeFe(Gy)))

\* mutant: a check-then-initialize without the Once: a thread that finds
\* the cell not yet complete runs the initializer itself
OnceMayRunRacy(st) == st # "done"

\* Once::call_once runs the closure only for the call that finds the Once
\* new
OnceMayRun(st) == st = "uninit"

\* a frame of a thread's stack: a call, or an initializer run by a dereference
Frame(what, init, todo) == [what |-> what, init |-> init, todo |-> todo]

Top(t) == stack[t][Len(stack[t])]

Pop(t) == SubSeq(stack[t], 1, Len(stack[t]) - 1)

\* the top frame of t with its first dereference done
Advance(t) ==
    Pop(t) \o <<[Top(t) EXCEPT !.todo = Tail(Top(t).todo)]>>

\* what a dereference returned: the cell and the value read
Seen(c, v) == [cell |-> c, val |-> v]

NothingSeen == {}

\* every cell initialized and no thread inside a call
LazySettled ==
    /\ once = [c \in Cells |-> "done"]
    /\ cellval = [c \in Cells |-> CellValue(c)]
    /\ inits = [c \in Cells |-> 1]
    /\ stack = [t \in Threads |-> << >>]
    /\ seen = NothingSeen

\* the process has started: no cell is initialized yet
InitLazy ==
    /\ once = [c \in Cells |-> "uninit"]
    /\ cellval = [c \in Cells |-> NoCell]
    /\ inits = [c \in Cells |-> 0]
    /\ stack = [t \in Threads |-> << >>]
    /\ seen = NothingSeen
    /\ fe = 0
    /\ acc = Infinity
    /\ call = MkCall("none", 0, 0, Ok(0))
    /\ pc = "threads"
    /\ k = 0
    /\ result = Infinity
    /\ current = Infinity
    /\ iter = 0

SeqIdle == UNCHANGED <<fe, acc, call, pc, k, result, current, iter>>

\* thread t enters a call
CallEnter(t) ==
    /\ pc = "threads"
    /\ stack[t] = << >>
    /\ \E c \in Calls :
        /\ c.held => once["PRIME"] = "done"
        /\ stack' = [stack EXCEPT ![t] = <<Frame("call", FALSE, c.todo)>>]
    /\ UNCHANGED <<once, cellval, inits, seen>>
    /\ SeqIdle

\* the next dereference of t finds the Once new: t runs the initializer
DerefInit(t) ==
    /\ stack[t] # << >>
    /\ Top(t).todo # << >>
    /\ LET c == Head(Top(t).todo)
       IN  /\ OnceMayRun(once[c])
           /\ once' = [once EXCEPT ![c] = "running"]
           /\ stack' = [stack EXCEPT
                          ![t] = stack[t] \o <<Frame(c, TRUE, InitDerefs(c))>>]
    /\ UNCHANGED <<cellval, inits, seen>>
    /\ SeqIdle

\* the initializer t runs has computed its value: it is stored and the Once
\* completes
InitFinish(t) ==
    /\ stack[t] # << >>
    /\ Top(t).init
    /\ Top(t).todo = << >>
    /\ LET c == Top(t).what
       IN  /\ cellval' = [cellval EXCEPT ![c] = CellValue(c)]
           /\ inits' = [inits EXCEPT ![c] = inits[c] + 1]
           /\ once' = [once EXCEPT ![c] = "done"]
    /\ stack' = [stack EXCEPT ![t] = Pop(t)]
    /\ UNCHANGED seen
    /\ SeqIdle

\* the next dereference of t finds the Once complete and reads the cell
DerefRead(t) ==
    /\ stack[t] # << >>
    /\ Top(t).todo # << >>
    /\ LET c == Head(Top(t).todo)
       IN  /\ once[c] = "done"
           /\ seen' = seen \cup {Seen(c, cellval[c])}
    /\ stack' = [stack EXCEPT ![t] = Advance(t)]
    /\ UNCHANGED <<once, cellval, inits>>
    /\ SeqIdle

\* the call of t returns
CallReturn(t) ==
    /\ stack[t] # << >>
    /\ ~Top(t).init
    /\ Top(t).todo = << >>
    /\ stack' = [stack EXCEPT ![t] = << >>]
    /\ UNCHANGED <<once, cellval, inits, seen>>
    /\ SeqIdle

NextLazy ==
    \/ \E t \in Threads : CallEnter(t)
    \/ \E t \in Threads : DerefInit(t)
    \/ \E t \in Threads : InitFinish(t)
    \/ \E t \in Threads : DerefRead(t)
    \/ \E t \in Threads : CallReturn(t)


(***************************************************************************)
(* FieldSpec: calls on FieldElement values.                                *)
(***************************************************************************)
InitField ==
    /\ fe = FeZero.val
    /\ call = MkCall("fe_zero", 0, 0, FeZero)
    /\ acc = Infinity
    /\ pc = "idle"
    /\ k = 0
    /\ result = Infinity
    /\ current = Infinity
    /\ iter = 0
    /\ LazySettled

PointIdle == UNCHANGED <<acc, pc, k, result, current, iter, lazyVars>>

\* the right-hand operand of a binary call: any element the caller holds
FeOperands == FieldInputs \cup {fe}

DoFeNew ==
    \E n \in Ints :
        LET r == FeNew(n)
        IN  /\ call' = MkCall("fe_new", n, 0, r)
            /\ fe' = KeepFe(r, fe)
            /\ PointIdle

DoFeZero ==
    /\ call' = MkCall("fe_zero", 0, 0, FeZero)
    /\ fe' = KeepFe(FeZero, fe)
    /\ PointIdle

DoFeOne ==
    /\ call' = MkCall("fe_one", 0, 0, FeOne)
    /\ fe' = KeepFe(FeOne, fe)
    /\ PointIdle

DoFeAdd ==
    \E b \in FeOperands :
        LET r == Ok(FeAdd(fe, b))
        IN  /\ call' = MkCall("fe_add", fe, b, r)
            /\ fe' = KeepFe(r, fe)
            /\ PointIdle

DoFeSub ==
    \E b \in FeOperands :
        LET r == Ok(FeSub(fe, b))
        IN  /\ call' = MkCall("fe_sub", fe, b, r)
            /\ fe' = KeepFe(r, fe)
            /\ PointIdle

DoFeMul ==
    \E b \in FeOperands :
        LET r == Ok(FeMul(fe, b))
        IN  /\ call' = MkCall("fe_mul", fe, b, r)
            /\ fe' = KeepFe(r, fe)
            /\ PointIdle

DoFeDiv ==
    \E b \in FeOperands :
        LET r == FeDiv(fe, b)
        IN  /\ call' = MkCall("fe_div", fe, b, r)
            /\ fe' = KeepFe(r, fe)
            /\ PointIdle

DoFeNegate ==
    LET r == FeNegate(fe)
    IN  /\ call' = MkCall("fe_negate", fe, 0, r)
        /\ fe' = KeepFe(r, fe)
        /\ PointIdle

DoFePow ==
    \E e \in Ints :
        LET r == FePow(fe, e)
        IN  /\ call' = MkCall("fe_pow", fe, e, r)
            /\ fe' = KeepFe(r, fe)
            /\ PointIdle

DoCoeffMul ==
    \E c \in Ints :
        LET r == Ok(CoeffMul(c, fe))
        IN  /\ call' = MkCall("fe_coeff", fe, c, r)
            /\ fe' = KeepFe(r, fe)
            /\ PointIdle

\* Point::new(x, y): x is None or the register, y is None or any element
\* the caller holds; the result is handed back to the caller (call.out)
DoPointNew ==
    \E x \in {NoneFe, SomeFe(fe)},
       y \in OptFieldInputs \cup {SomeFe(fe)} :
        LET r == PointNew(x, y)
        IN  /\ call' = MkCall("pt_new", x, y, r)
            /\ UNCHANGED fe
            /\ PointIdle

NextField ==
    \/ DoFeNew
    \/ DoFeZero
    \/ DoFeOne
    \/ DoFeAdd
    \/ DoFeSub
    \/ DoFeMul
    \/ DoFeDiv
    \/ DoFeNegate
    \/ DoFePow
    \/ DoCoeffMul
    \/ DoPointNew

FieldSpec == InitField /\ [][NextField]_vars

(***************************************************************************)
(* Spec: calls on Point values.                                            *)
(***************************************************************************)
\* acc = Point::new(x, y).unwrap_or(Point::Infinity)
Init ==
    \E x \in OptFieldInputs, y \in OptFieldInputs :
        LET r == PointNew(x, y)
        IN  /\ call = MkCall("pt_new", x, y, r)
            /\ acc = UnwrapOrInfinity(r)
            /\ fe = FeZero.val
            /\ pc = "idle"
            /\ k = 0
            /\ result = Infinity
            /\ current = Infinity
            /\ iter = 0
            /\ LazySettled

\* rhs: &Point of an addition: a point the caller holds, or the register
PointOperands == HeldOperands \cup {acc}

\* acc = &acc + &q
DoPointAdd ==
    /\ pc = "idle"
    /\ \E q \in PointOperands :
        LET r == PointAdd(acc, q)
        IN  /\ call' = MkCall("pt_add", acc, q, r)
            /\ acc' = KeepPoint(r, acc)
    /\ UNCHANGED <<fe, pc, k, result, current, iter, lazyVars>>

\* &acc * &rhs is entered: lines 163-170
MulStart ==
    /\ pc = "idle"
    /\ \E rhs \in Scalars :
        LET st == MulEnter(acc, rhs)
        IN  /\ call' = [op |-> "pt_mul", a |-> acc, b |-> rhs, kind |-> "Running",
                        out |-> 0, err |-> ""]
            /\ k' = st.k
            /\ result' = st.result
            /\ current' = st.current
    /\ iter' = 0
    /\ pc' = "loop"
    /\ UNCHANGED <<fe, acc, lazyVars>>

\* one iteration of the loop: lines 172-177
MulStep ==
    /\ pc = "loop"
    /\ k > 0
    /\ LET st == MulIter([k |-> k, result |-> result, current |-> current,
                          panicked |-> FALSE])
       IN  IF st.panicked
           THEN /\ call' = [call EXCEPT !.kind = "Panic",
                                        !.err = "DivisionByZero"]
                /\ pc' = "idle"
                /\ k' = 0
                /\ result' = Infinity
                /\ current' = Infinity
                /\ iter' = 0
           ELSE /\ k' = st.k
                /\ result' = st.result
                /\ current' = st.current
                /\ iter' = iter + 1
                /\ UNCHANGED <<call, pc>>
    /\ UNCHANGED <<fe, acc, lazyVars>>

\* the loop is left and result returned (line 179); the locals are dropped
MulReturn ==
    /\ pc = "loop"
    /\ ~(k > 0)
    /\ call' = [call EXCEPT !.kind = "Ok", !.out = result]
    /\ acc' = KeepPoint(Ok(result), acc)
    /\ pc' = "idle"
    /\ k' = 0
    /\ current' = Infinity
    /\ result' = Infinity
    /\ iter' = 0
    /\ UNCHANGED <<fe, lazyVars>>

Next ==
    \/ DoPointAdd
    \/ MulStart
    \/ MulStep
    \/ MulReturn

Spec == Init /\ [][Next]_vars

(***************************************************************************)
(* LazySpec: the process as its constants and operands see it: threads     *)
(* racing on the cells from a cold start, or a caller running scalar       *)
(* multiplications on the point it holds once the cells are settled.       *)
(***************************************************************************)
InitProcess == InitLazy \/ Init

NextProcess ==
    \/ NextLazy
    \/ MulStart
    \/ MulStep
    \/ MulReturn

LazySpec == InitProcess /\ [][NextProcess]_vars

(***************************************************************************)
(* Reference notions the claims are stated with, computed without the      *)
(* code's operators.                                                       *)
(***************************************************************************)
\* y^2 = x^3 + 7 (mod p); % is the floored residue for a positive modulus
OnCurveEq(x, y) == (y * y - (x * x * x + SECP256K1_B)) % PRIME = 0

\* Infinity or on the curve
OnCurve(P) == P.tag = "Infinity" \/ OnCurveEq(P.x, P.y)

\* P added to itself n times starting from Infinity
RECURSIVE RepeatAdd(_, _)
RepeatAdd(P, n) ==
    IF n = 0 THEN Ok(Infinity)
    ELSE LET prev == RepeatAdd(P, n - 1)
         IN  IF prev.kind = "Panic" THEN prev ELSE PointAdd(prev.val, P)

\* the last call has returned or unwound
Returned(op) == call.op = op /\ call.kind # "Running"

\* the outcome of the last call
Outcome == [kind |-> call.kind, val |-> call.out, err |-> call.err]

(***************************************************************************)
(* Claims.                                                                 *)
(***************************************************************************)

\* C1: for every point P that is Infinity or on the curve and every integer
\* k, P * k returns the point obtained by adding P to itself (k mod N) times
\* starting from Infinity (k mod N the non-negative residue).
C1_MulIsRepeatedAdd ==
    (Returned("pt_mul") /\ OnCurve(call.a))
        => Outcome = RepeatAdd(call.a, call.b % SECP256K1_N)

\* C2: every Coordinates point reached by Point::new, addition or scalar
\* multiplication satisfies y^2 = x^3 + 7 (mod p), and Point::new on its
\* coordinates succeeds.
C2_ReachablePointsOnCurve ==
    /\ acc.tag = "Coordinates"
        => /\ OnCurveEq(acc.x, acc.y)
           /\ PointNew(SomeFe(acc.x), SomeFe(acc.y)).kind = "Ok"
    /\ ((Returned("pt_add") \/ Returned("pt_mul")) /\ call.kind = "Ok"
            /\ call.out.tag = "Coordinates")
        => /\ OnCurveEq(call.out.x, call.out.y)
           /\ PointNew(SomeFe(call.out.x), SomeFe(call.out.y)).kind = "Ok"

\* C3: on points that are Infinity or on the curve, the division inside add
\* is reached only with a non-zero denominator, and neither add nor
\* scalar multiplication raises the division-by-zero failure.
C3_AddMulTotal ==
    /\ (Returned("pt_add") /\ OnCurve(call.a) /\ OnCurve(call.b))
        => /\ call.kind # "Panic"
           /\ (call.a.tag = "Coordinates" /\ call.b.tag = "Coordinates"
                 /\ call.a.x # call.b.x)
                => FeSub(call.b.x, call.a.x) # 0
    /\ (Returned("pt_mul") /\ OnCurve(call.a)) => call.kind # "Panic"

FieldOps ==
    {"fe_new", "fe_zero", "fe_one", "fe_add", "fe_sub", "fe_mul", "fe_div",
     "fe_negate", "fe_pow", "fe_coeff"}

\* C4: every FieldElement any operation produces has 0 <= num < p (new,
\* zero, one, add, sub, mul, div, negate, pow, and k * a for every integer k).
C4_FieldElementInRange ==
    /\ 0 <= fe /\ fe < PRIME
    /\ (call.op \in FieldOps /\ call.kind = "Ok")
        => (0 <= call.out /\ call.out < PRIME)

\* C5: a / 0 signals the division-by-zero failure for every a, as do
\* inverting zero and raising zero to a negative exponent; for b # 0, a / b
\* succeeds and equals a * inverse(b) (so (a / b) * b = a mod p when b is
\* not a multiple of p).
C5_DivisionByZeroFails ==
    /\ (call.op = "fe_div" /\ call.b = 0)
        => (call.kind = "Panic" /\ call.err = "DivisionByZero")
    /\ (call.op = "fe_div" /\ call.b # 0)
        => /\ call.kind = "Ok"
           /\ FeInverse(call.b).kind = "Ok"
           /\ call.out = FeMul(call.a, FeInverse(call.b).val)
           /\ call.b % PRIME # 0
                => /\ (FeInverse(call.b).val * call.b) % PRIME = 1
                   /\ (call.out * call.b - call.a) % PRIME = 0
    /\ (call.op = "fe_pow" /\ call.a = 0 /\ call.b < 0)
        => (call.kind = "Panic" /\ call.err = "DivisionByZero")
    /\ FeInverse(0).kind = "Panic"
    /\ (fe = 0) <=> (FeInverse(fe).kind = "Panic")

\* C5 witness: a division of a non-zero element by zero has panicked
C5_Witness ==
    /\ call.op = "fe_div"
    /\ call.a # 0
    /\ call.b = 0
    /\ call.kind = "Panic"

CheckedErrors == {"OutOfRange", "NotOnCurve", "MismatchedCoordinates"}

\* C6 as stated: all four error conditions (OutOfRange, NotOnCurve,
\* MismatchedCoordinates, DivisionByZero) reach the caller as an Err result;
\* none is an abort.
C6_AllErrorsRecoverable ==
    call.err \in CheckedErrors \cup {"DivisionByZero"} => call.kind = "Err"

\* C6 amended: OutOfRange (FieldElement::new), NotOnCurve and
\* MismatchedCoordinates (Point::new) reach the caller as an Err result and
\* are raised exactly on their condition; DivisionByZero (inverse under div
\* and under pow with a negative exponent) is a panic, and so is the
\* OutOfRange that negate unwraps, which it meets exactly on an element
\* with num > p that is not a multiple of p.
C6_ErrorsResultsDivisionPanics ==
    /\ call.err \in CheckedErrors => call.kind = "Err"
    /\ call.err = "DivisionByZero" => call.kind = "Panic"
    /\ call.err = "unwrap" => (call.kind = "Panic" /\ call.op = "fe_negate")
    /\ call.op = "fe_negate"
        => ((call.kind = "Panic" /\ call.err = "unwrap")
              <=> (call.a > PRIME /\ call.a % PRIME # 0))
    /\ (call.op = "fe_new" /\ (call.a < 0 \/ call.a >= PRIME))
        => (call.kind = "Err" /\ call.err = "OutOfRange")
    /\ (call.op = "pt_new" /\ call.a.some # call.b.some)
        => (call.kind = "Err" /\ call.err = "MismatchedCoordinates")
    /\ (call.op = "pt_new" /\ call.a.some /\ call.b.some
          /\ ~OnCurveEq(call.a.num, call.b.num))
        => (call.kind = "Err" /\ call.err = "NotOnCurve")
    /\ (call.op = "fe_div" /\ call.b = 0)
        => (call.kind = "Panic" /\ call.err = "DivisionByZero")
    /\ call.op \in {"fe_new", "pt_new"} => call.kind # "Panic"

\* C6 witness: zero raised to a negative exponent has panicked
C6_Witness ==
    /\ call.op = "fe_pow"
    /\ call.a = 0
    /\ call.b < 0
    /\ call.kind = "Panic"
    /\ call.err = "DivisionByZero"

\* C7: Point::new(None, None) is Infinity; Point::new(Some(x), Some(y)) is
\* Coordinates{x, y} with the given coordinates iff y^2 = x^3 + 7 (mod p)
\* and the not-on-curve error otherwise; exactly one Some is the
\* mismatched-coordinates error; G is accepted and (1, 2) is rejected.
C7_PointNewClassifies ==
    call.op = "pt_new" =>
        /\ (~call.a.some /\ ~call.b.some)
            => (call.kind = "Ok" /\ call.out = Infinity)
        /\ (call.a.some /\ call.b.some /\ OnCurveEq(call.a.num, call.b.num))
            => /\ call.kind = "Ok"
               /\ call.out = Coordinates(call.a.num, call.b.num)
        /\ (call.a.some /\ call.b.some /\ ~OnCurveEq(call.a.num, call.b.num))
            => (call.kind = "Err" /\ call.err = "NotOnCurve")
        /\ (call.a.some # call.b.some)
            => (call.kind = "Err" /\ call.err = "MismatchedCoordinates")
        /\ (call.a = SomeFe(Gx) /\ call.b = SomeFe(Gy))
            => (call.kind = "Ok" /\ call.out = G)
        /\ (call.a = SomeFe(1) /\ call.b = SomeFe(2)) => call.kind = "Err"

\* C7 witness: Point::new has accepted the generator
C7_Witness ==
    /\ call.op = "pt_new"
    /\ call.a = SomeFe(Gx)
    /\ call.b = SomeFe(Gy)
    /\ call.kind = "Ok"
    /\ call.out = G

\* C8: FieldElement::new(num) fails iff num < 0 or num >= p; for
\* 0 <= num <= p - 1 it succeeds and the element's num is the input.
C8_FieldNewRange ==
    call.op = "fe_new" =>
        /\ (call.kind = "Err") <=> (call.a < 0 \/ call.a >= PRIME)
        /\ (0 <= call.a /\ call.a <= PRIME - 1)
            => (call.kind = "Ok" /\ call.out = call.a /\ fe = call.a)

\* C8 witness: new(p - 1) has succeeded
C8_Witness ==
    /\ call.op = "fe_new"
    /\ call.a = PRIME - 1
    /\ call.kind = "Ok"
    /\ fe = PRIME - 1

\* C9: the scalar is first brought to its residue in [0, N) for every
\* integer k, so P * k = P * (k + N); N * G = Infinity,
\* (N + 2) * G = 2 * G and (-1) * G = (N - 1) * G.
C9_MulModuloOrder ==
    call.op = "pt_mul" =>
        /\ ReduceScalar(call.b) = call.b % SECP256K1_N
        /\ Returned("pt_mul") =>
            /\ Outcome = PointMul(call.a, call.b + SECP256K1_N)
            /\ Outcome = PointMul(call.a, call.b - SECP256K1_N)
            /\ (call.a = G /\ call.b = SECP256K1_N)
                => Outcome = Ok(Infinity)
            /\ (call.a = G /\ call.b = SECP256K1_N + 2)
                => Outcome = PointAdd(G, G)
            /\ (call.a = G /\ call.b = 0 - 1)
                => Outcome = RepeatAdd(G, SECP256K1_N - 1)

\* C9 witness: (-1) * G has returned a finite point
C9_Witness ==
    /\ Returned("pt_mul")
    /\ call.a = G
    /\ call.b = 0 - 1
    /\ call.kind = "Ok"
    /\ call.out.tag = "Coordinates"

\* C10: for every on-curve P = (x, y), P + (-P) = Infinity with
\* -P = (x, negate(y)); two on-curve points with equal x and differing y
\* satisfy y2 = -y1 (read in the weakest way, as y1 + y2 = 0 mod p), so the
\* equal-x, differing-y branch never discards a finite sum; a point with
\* y = 0 doubles to Infinity.
C10_InverseBranch ==
    /\ (acc.tag = "Coordinates" /\ OnCurve(acc))
        => /\ FeNegate(acc.y).kind = "Ok"
           /\ PointAdd(acc, Coordinates(acc.x, FeNegate(acc.y).val))
                = Ok(Infinity)
    /\ (Returned("pt_add") /\ call.a.tag = "Coordinates"
          /\ call.b.tag = "Coordinates" /\ OnCurve(call.a) /\ OnCurve(call.b)
          /\ call.a.x = call.b.x /\ call.a.y # call.b.y)
        => (call.a.y + call.b.y) % PRIME = 0
    /\ (acc.tag = "Coordinates" /\ acc.y = 0)
        => PointAdd(acc, acc) = Ok(Infinity)

\* C11: Infinity is the two-sided identity of point addition: for every
\* point P (Infinity included), P + Infinity and Infinity + P return a point
\* equal to P in both coordinates.
C11_InfinityIsIdentity ==
    /\ PointAdd(acc, Infinity) = Ok(acc)
    /\ PointAdd(Infinity, acc) = Ok(acc)
    /\ \A P \in PointInputs :
        /\ PointAdd(P, Infinity) = Ok(P)
        /\ PointAdd(Infinity, P) = Ok(P)
    /\ (Returned("pt_add") /\ call.b = Infinity) => Outcome = Ok(call.a)
    /\ (Returned("pt_add") /\ call.a = Infinity) => Outcome = Ok(call.b)

\* C11 witness: a finite point plus Infinity has returned the point, and the
\* register holds it
C11_Witness ==
    /\ Returned("pt_add")
    /\ call.a.tag = "Coordinates"
    /\ call.b = Infinity
    /\ call.kind = "Ok"
    /\ call.out = call.a
    /\ acc = call.a

\* C12: point addition is commutative: for all points P and Q that are
\* Infinity or on the curve, P + Q = Q + P, in every branch of the case
\* analysis (identity, doubling, inverse pair, distinct-point addition).
C12_AddCommutative ==
    (Returned("pt_add") /\ OnCurve(call.a) /\ OnCurve(call.b))
        => Outcome = PointAdd(call.b, call.a)

\* (.. + ..) + R, where the inner sum r may have panicked
SumThenAdd(r, R) == IF r.kind = "Panic" THEN r ELSE PointAdd(r.val, R)

\* P + (.. + ..), where the inner sum r may have panicked
AddToSum(P, r) == IF r.kind = "Panic" THEN r ELSE PointAdd(P, r.val)

\* C13: point addition is associative: for all points P, Q, R that are
\* Infinity or on the curve, (P + Q) + R = P + (Q + R), also when an
\* intermediate sum is Infinity, a doubling or an inverse pair.
C13_AddAssociative ==
    (Returned("pt_add") /\ OnCurve(call.a) /\ OnCurve(call.b))
        => \A R \in PointInputs :
               OnCurve(R)
                   => SumThenAdd(Outcome, R)
                        = AddToSum(call.a, PointAdd(call.b, R))

\* C14: for every non-zero field element a: a.pow(p - 1) = 1, a.pow(0) = 1
\* and a.pow(-1) * a = 1; a negative exponent -e yields the inverse of a
\* raised to e mod (p - 1).
C14_FermatAndInversePower ==
    /\ fe # 0
        => /\ FePow(fe, PRIME - 1) = FeOne
           /\ FePow(fe, 0) = FeOne
           /\ FePow(fe, 0 - 1).kind = "Ok"
           /\ Ok(FeMul(FePow(fe, 0 - 1).val, fe)) = FeOne
    /\ (call.op = "fe_pow" /\ call.a # 0)
        => /\ call.kind = "Ok"
           /\ call.b = PRIME - 1 => call.out = FeOne.val
           /\ call.b = 0 => call.out = FeOne.val
           /\ call.b = 0 - 1 => FeMul(call.out, call.a) = FeOne.val
           /\ call.b < 0
                => /\ (FeInverse(call.a).val * call.a) % PRIME = 1
                   /\ call.out = ModPow(FeInverse(call.a).val,
                                        (0 - call.b) % (PRIME - 1), PRIME)

\* a^e mod p by e multiplications, the exponent not reduced
RECURSIVE PowerModP(_, _)
PowerModP(a, e) == IF e = 0 THEN 1 % PRIME ELSE (PowerModP(a, e - 1) * a) % PRIME

\* C15: for every field element a (zero included) and every exponent
\* e >= 0, pow(a, e) is a^e mod p computed with the unreduced exponent; in
\* particular pow(0, e) = 0 for every e > 0 (multiples of p - 1 included)
\* and pow(a, 0) = 1.
C15_PowIsPowerModP ==
    (call.op = "fe_pow" /\ call.b >= 0)
        => /\ call.kind = "Ok"
           /\ call.out = PowerModP(call.a, call.b)
           /\ (call.a = 0 /\ call.b > 0) => call.out = 0
           /\ call.b = 0 => call.out = 1

\* C16: add and sub compute (a + b) mod p and (a - b) mod p with a single
\* conditional correction by p, and for all field elements a, b, c:
\* a + b = b + a, (a + b) + c = a + (b + c), a + 0 = a, a - 0 = a,
\* a - a = 0 and a + negate(a) = 0 (negate(0) = 0).
C16_AddSubLaws ==
    /\ call.op = "fe_add" => call.out = (call.a + call.b) % PRIME
    /\ call.op = "fe_sub" => call.out = (call.a - call.b) % PRIME
    /\ \A b \in FeOperands :
        /\ FeAdd(fe, b) = FeAdd(b, fe)
        /\ \A c \in FeOperands :
               FeAdd(FeAdd(fe, b), c) = FeAdd(fe, FeAdd(b, c))
    /\ FeAdd(fe, FeZero.val) = fe
    /\ FeSub(fe, FeZero.val) = fe
    /\ FeSub(fe, fe) = FeZero.val
    /\ FeNegate(fe).kind = "Ok"
    /\ FeAdd(fe, FeNegate(fe).val) = FeZero.val
    /\ FeNegate(FeZero.val) = FeZero

\* C17: for all field elements a, b, c: a * b = b * a,
\* (a * b) * c = a * (b * c), a * 1 = a, a * 0 = 0, a / 1 = a, and for a
\* non-zero divisor 0 / a = 0, a / a = 1 and (a / b) * b = a.
C17_MulDivLaws ==
    /\ \A b \in FeOperands :
        /\ FeMul(fe, b) = FeMul(b, fe)
        /\ \A c \in FeOperands :
               FeMul(FeMul(fe, b), c) = FeMul(fe, FeMul(b, c))
        /\ b # 0
            => /\ FeDiv(fe, b).kind = "Ok"
               /\ FeMul(FeDiv(fe, b).val, b) = fe
    /\ FeMul(fe, FeOne.val) = fe
    /\ FeMul(fe, FeZero.val) = FeZero.val
    /\ FeDiv(fe, FeOne.val) = Ok(fe)
    /\ fe # 0
        => /\ FeDiv(FeZero.val, fe) = FeZero
           /\ FeDiv(fe, fe) = FeOne
    /\ (call.op = "fe_div" /\ call.b # 0)
        => /\ call.kind = "Ok"
           /\ FeMul(call.out, call.b) = call.a

RECURSIVE BitLen(_)
BitLen(n) == IF n = 0 THEN 0 ELSE 1 + BitLen(n \div 2)

RECURSIVE Pow2(_)
Pow2(n) == IF n = 0 THEN 1 ELSE 2 * Pow2(n - 1)

\* C19: the double-and-add loop always terminates: for every integer k the
\* working scalar starts in [0, N), is shifted right by one bit on every
\* iteration (so it decreases), and the loop stops exactly when it reaches
\* zero, after a number of iterations equal to the bit length of k mod N
\* (none when k mod N = 0).
C19_LoopTerminates ==
    /\ [](pc = "loop"
            => /\ 0 <= k /\ k < SECP256K1_N
               /\ k = (call.b % SECP256K1_N) \div Pow2(iter)
               /\ iter <= BitLen(call.b % SECP256K1_N))
    /\ [][(pc = "idle" /\ pc' = "loop")
            => (k' = call'.b % SECP256K1_N /\ iter' = 0)]_vars
    /\ [][(pc = "loop" /\ pc' = "loop")
            => (k > 0 /\ k' = k \div 2 /\ k' < k /\ iter' = iter + 1)]_vars
    /\ [][(pc = "loop" /\ pc' = "idle")
            => /\ k = 0
               /\ iter = BitLen(call.b % SECP256K1_N)
               /\ call'.kind = "Ok"]_vars

\* C20: at the start of every iteration of the double-and-add loop, with
\* k0 = k mod N, i the number of completed iterations, r the remaining
\* scalar: current = 2^i * P, r = floor(k0 / 2^i) and
\* result + r * current = k0 * P (multiples by repeated addition); the
\* accumulator is changed only when the low bit of r is set.
C20_LoopInvariant ==
    /\ []((pc = "loop" /\ k > 0)
            => /\ Ok(current) = RepeatAdd(call.a, Pow2(iter))
               /\ k = (call.b % SECP256K1_N) \div Pow2(iter)
               /\ AddToSum(result, RepeatAdd(current, k))
                    = RepeatAdd(call.a, call.b % SECP256K1_N))
    /\ [][(pc = "loop" /\ pc' = "loop" /\ k % 2 = 0)
            => result' = result]_vars

====
